---- MODULE Spec2Model ----
(***************************************************************************)
(* Model of src/src/main.c: the SHT41 BLE peripheral.                      *)
(*                                                                         *)
(* One worker thread (main) runs the telemetry loop; the Bluetooth stack   *)
(* and the kernel timer call the application's callbacks from their own    *)
(* contexts.  A worker action is the code between two blocking calls       *)
(* (k_event_wait) or calls into the stack or the sensor driver; callbacks  *)
(* interleave between worker actions.                                      *)
(*                                                                         *)
(* Kernel objects are modelled by the Zephyr API the source calls:         *)
(*  - k_event_set(e, b) REPLACES the tracked events by b and wakes a       *)
(*    thread waiting for a bit of b;                                       *)
(*  - k_event_wait(e, b, true, t): the third argument is `reset`: the      *)
(*    tracked events are cleared BEFORE waiting, so only a set made during *)
(*    the wait ends it; the call returns 0 on timeout;                     *)
(*  - k_timer_start(t, d, p) replaces the timer's programming: first       *)
(*    expiry after d, then every p; p = K_NO_WAIT is a one-shot.           *)
(* Time is abstracted: an armed timer may expire at any moment and a       *)
(* finite timeout may elapse whenever the waiter has not been woken.       *)
(***************************************************************************)
EXTENDS Integers, Sequences, FiniteSets, TLC

\* ------------------------------------------------------------------ bounds
\* Peer writes carry a first byte in 0..MaxByte (0x00 ack, 0x01 retry, others).
MaxByte == 2
\* connected_cb is called with err in 0..MaxErr (0 = success).
MaxErr == 1

\* --------------------------------------------------------------- constants
MAIN_EVT_TIMER_EXPIRY == 1
MAIN_EVT_BLE_RESP_RECEIVED == 2
MAIN_EVT_BLE_NOTIFICATION_ENABLED == 4
MAIN_EVT_BLE_CONNECTED == 8
MAIN_EVT_BLE_DISCONNECTED == 16

NOTIFY_STATUS_OK == 0
NOTIFY_STATUS_WAIT == 1
NOTIFY_STATUS_ERROR == 255

TIMER_INTERVAL_MINUTES == 1

\* Durations in seconds; K_NO_WAIT as a period is "no period", K_FOREVER as a
\* timeout never elapses.
K_NO_WAIT == 0
K_FOREVER == -1
K_SECONDS(s) == s
K_MINUTES(m) == 60 * m

NULL == "NULL"
CONN == "conn"

ScheduleRequest(d, p) == [delay |-> d, period |-> p]

\* The samples the sensor driver may return, as (temperature, humidity) in
\* hundredths, the value main() hands to notify_central().
Samples == { [temp |-> 2137, rh |-> 5502], [temp |-> -1050, rh |-> 9999] }

VARIABLES
  pc,                     \* the worker's position in main()
  evts,                   \* main_evts: the events the k_event tracks
  woken,                  \* the worker's pending k_event_wait was satisfied
  default_conn,           \* struct bt_conn *default_conn
  link,                   \* a peer is actually connected (stack state)
  notifications_enabled,  \* bool notifications_enabled
  adv,                    \* advertising is on (stack state)
  sched,                  \* sensor_timer: last programmed delay / period
  running,                \* sensor_timer: an expiry is still to come
  sht41_sensor_data,      \* struct sht41_data sht41_sensor_data
  startSched,             \* history: sched when the iteration began
  notifyLog,              \* history: frames handed to send_notification this iteration
  disconnectRequested,    \* history: bt_conn_disconnect was called this iteration
  fetched,                \* history: sht41_fetch_data succeeded this iteration
  retryInAck,             \* history: 0x01 was written while waiting for the ack
  ackInAck,               \* history: 0x00 was written while waiting for the ack
  teardown,               \* history: the link went down during the disconnect wait
  act                     \* history: the last step taken and its input

vars == << pc, evts, woken, default_conn, link, notifications_enabled, adv,
           sched, running, sht41_sensor_data, startSched, notifyLog,
           disconnectRequested, fetched, retryInAck, ackInAck, teardown, act >>

hist == << startSched, notifyLog, disconnectRequested, fetched, retryInAck,
           ackInAck, teardown >>

Step(name, arg) == [name |-> name, arg |-> arg]

\* ------------------------------------------------------------ event object
\* The bit each blocked position of the worker waits for.
Wanted(p) ==
  CASE p = "WaitingForWake"     -> MAIN_EVT_TIMER_EXPIRY
    [] p = "AwaitingConn"       -> MAIN_EVT_BLE_CONNECTED
    [] p = "AwaitingNotify"     -> MAIN_EVT_BLE_NOTIFICATION_ENABLED
    [] p = "AwaitingAck"        -> MAIN_EVT_BLE_RESP_RECEIVED
    [] p = "AwaitingDisconnect" -> MAIN_EVT_BLE_DISCONNECTED
    [] OTHER                    -> 0

\* The timeout of each wait.
WAKE_TIMEOUT == K_FOREVER
CONNECT_TIMEOUT == 60
NOTIFY_ENABLE_TIMEOUT == 5
\* Mutant: the response wait never times out.
RESP_TIMEOUT_Forever == K_FOREVER
RESP_TIMEOUT == 5
DISCONNECT_TIMEOUT == 5

Timeout(p) ==
  CASE p = "WaitingForWake"     -> WAKE_TIMEOUT
    [] p = "AwaitingConn"       -> K_SECONDS(CONNECT_TIMEOUT)
    [] p = "AwaitingNotify"     -> K_SECONDS(NOTIFY_ENABLE_TIMEOUT)
    [] p = "AwaitingAck"        -> K_SECONDS(RESP_TIMEOUT)
    [] p = "AwaitingDisconnect" -> K_SECONDS(DISCONNECT_TIMEOUT)
    [] OTHER                    -> K_NO_WAIT

\* k_event_set(&main_evts, bit), called from a callback.
k_event_set(bit) ==
  /\ evts' = {bit}
  /\ woken' = (woken \/ Wanted(pc) = bit)

\* Mutant: the wait is entered with reset = false, so an event set before the
\* wait satisfies it.
EnterWait_NoReset(p) ==
  /\ pc' = p
  /\ evts' = evts
  /\ woken' = (Wanted(p) \in evts)
\* The worker enters k_event_wait(&main_evts, Wanted(p), true, Timeout(p)) at
\* position p: reset = true clears the tracked events first.
EnterWait(p) ==
  /\ pc' = p
  /\ evts' = {}
  /\ woken' = FALSE

\* The pending k_event_wait returns the matching events / returns 0.
WaitReturns == Wanted(pc) # 0 /\ woken
WaitTimesOut == Wanted(pc) # 0 /\ ~woken /\ Timeout(pc) # K_FOREVER

\* ------------------------------------------------------------------- timer
k_timer_start(req) ==
  /\ sched' = req
  /\ running' = TRUE


\* The schedule each branch programs.
AckSchedule ==            \* rx_chr_written, byte 0x00
  ScheduleRequest(K_MINUTES(TIMER_INTERVAL_MINUTES), K_MINUTES(TIMER_INTERVAL_MINUTES))
RetrySchedule ==          \* rx_chr_written, byte 0x01
  ScheduleRequest(K_SECONDS(1), K_MINUTES(TIMER_INTERVAL_MINUTES))
\* Mutant: the short retry is programmed as a repeating timer.
FetchFailSchedule_Periodic == ScheduleRequest(K_SECONDS(5), K_SECONDS(5))
FetchFailSchedule ==      \* main, sht41_fetch_data failed
  ScheduleRequest(K_SECONDS(5), K_NO_WAIT)
\* Mutant: the failed push programs a one-shot.
NotifyFailSchedule_OneShot == ScheduleRequest(K_SECONDS(15), K_NO_WAIT)
NotifyFailSchedule ==     \* main, notify_central(OK) failed
  ScheduleRequest(K_SECONDS(15), K_SECONDS(15))
\* Mutant: the response timeout programs a one-shot.
RespTimeoutSchedule_OneShot == ScheduleRequest(K_SECONDS(15), K_NO_WAIT)
RespTimeoutSchedule ==    \* main, no response within the wait
  ScheduleRequest(K_SECONDS(15), K_SECONDS(15))
\* Mutant: the completed iteration programs a repeating timer.
DoneSchedule_Periodic == ScheduleRequest(K_SECONDS(15), K_SECONDS(15))
DoneSchedule ==           \* main, end of a completed iteration
  ScheduleRequest(K_SECONDS(15), K_NO_WAIT)

\* K_TIMER_DEFINE(sensor_timer, ...): defined, never started by main() or ble_init().
NeverStarted == ScheduleRequest(0, 0)

\* ------------------------------------------------------------------ frames
\* (v >> 8) & 0xff and v & 0xff of an int16_t v (two's complement).
U16(v) == v % 65536
HighByte(v) == (U16(v) \div 256) % 256
LowByte(v) == U16(v) % 256

\* Mutant: the two bytes of each value are sent low byte first.
Frame_LittleEndian(status, temp, rh) ==
  IF status = NOTIFY_STATUS_OK
  THEN << NOTIFY_STATUS_OK, LowByte(temp), HighByte(temp), LowByte(rh), HighByte(rh) >>
  ELSE << status >>
\* The bytes notify_central(status, temp, rh) hands to send_notification.
Frame(status, temp, rh) ==
  IF status = NOTIFY_STATUS_OK
  THEN << NOTIFY_STATUS_OK, HighByte(temp), LowByte(temp), HighByte(rh), LowByte(rh) >>
  ELSE IF status = NOTIFY_STATUS_ERROR THEN << NOTIFY_STATUS_ERROR >>
  ELSE IF status = NOTIFY_STATUS_WAIT THEN << NOTIFY_STATUS_WAIT >>
  ELSE << >>

\* bt_gatt_notify(default_conn, ...): the results the stack may give.
NotifyResults == IF link /\ default_conn # NULL THEN {0, 1} ELSE {1}

\* notify_central: one send_notification call, logged.
notify_central(status, temp, rh) ==
  notifyLog' = Append(notifyLog, Frame(status, temp, rh))

\* Mutant: advertising is left on.
stop_adv_Skipped(err) == adv' = adv
\* stop_adv(): bt_le_adv_stop() may fail, which is only logged.
stop_adv(err) == adv' = IF err = 0 THEN FALSE ELSE adv

\* -------------------------------------------------------------------- Init
Init ==
  /\ pc = "Boot"
  /\ evts = {}
  /\ woken = FALSE
  /\ default_conn = NULL
  /\ link = FALSE
  /\ notifications_enabled = FALSE
  /\ adv = FALSE
  /\ sched = NeverStarted
  /\ running = FALSE
  /\ sht41_sensor_data = [temp |-> 0, rh |-> 0]
  /\ startSched = NeverStarted
  /\ notifyLog = << >>
  /\ disconnectRequested = FALSE
  /\ fetched = FALSE
  /\ retryInAck = FALSE
  /\ ackInAck = FALSE
  /\ teardown = "no"
  /\ act = Step("none", 0)

\* --------------------------------------------------------------- callbacks
\* Mutant: every byte other than 0x01 is taken for the acknowledgment.
rx_chr_written_AnyAck(b) ==
  /\ link
  /\ IF b # 1
     THEN /\ k_event_set(MAIN_EVT_BLE_RESP_RECEIVED)
          /\ k_timer_start(AckSchedule)
     ELSE /\ k_timer_start(RetrySchedule)
          /\ UNCHANGED << evts, woken >>
  /\ retryInAck' = (retryInAck \/ (b = 1 /\ pc = "AwaitingAck"))
  /\ ackInAck' = (ackInAck \/ (b = 0 /\ pc = "AwaitingAck"))
  /\ UNCHANGED teardown
  /\ act' = Step("rx_chr_written", b)
  /\ UNCHANGED << pc, default_conn, link, notifications_enabled, adv,
                  sht41_sensor_data, startSched, notifyLog, disconnectRequested,
                  fetched >>
\* rx_chr_written: the peer writes a value whose first byte is b.
rx_chr_written(b) ==
  /\ link
  /\ IF b = 0
     THEN /\ k_event_set(MAIN_EVT_BLE_RESP_RECEIVED)
          /\ k_timer_start(AckSchedule)
     ELSE IF b = 1
     THEN /\ k_timer_start(RetrySchedule)
          /\ UNCHANGED << evts, woken >>
     ELSE UNCHANGED << evts, woken, sched, running >>
  /\ retryInAck' = (retryInAck \/ (b = 1 /\ pc = "AwaitingAck"))
  /\ ackInAck' = (ackInAck \/ (b = 0 /\ pc = "AwaitingAck"))
  /\ UNCHANGED teardown
  /\ act' = Step("rx_chr_written", b)
  /\ UNCHANGED << pc, default_conn, link, notifications_enabled, adv,
                  sht41_sensor_data, startSched, notifyLog, disconnectRequested,
                  fetched >>

\* tx_chr_ccc_changed: the peer arms (value # 0) or disarms (value = 0) the
\* notify channel; the stack also disarms it when the subscription ends.
tx_chr_ccc_changed(value) ==
  /\ IF value # 0
     THEN /\ link
          /\ notifications_enabled' = TRUE
          /\ k_event_set(MAIN_EVT_BLE_NOTIFICATION_ENABLED)
     ELSE /\ notifications_enabled
          /\ notifications_enabled' = FALSE
          /\ UNCHANGED << evts, woken >>
  /\ act' = Step("tx_chr_ccc_changed", value)
  /\ UNCHANGED << pc, default_conn, link, adv, sched, running,
                  sht41_sensor_data, hist >>

\* connected_cb(conn, err): a connection attempt on the advertised device ended.
connected_cb(err) ==
  /\ adv /\ ~link
  /\ default_conn' = CONN
  /\ link' = (err = 0)
  /\ k_event_set(MAIN_EVT_BLE_CONNECTED)
  /\ teardown' = IF teardown = "closed" THEN "reconnected" ELSE teardown
  /\ act' = Step("connected_cb", err)
  /\ UNCHANGED << pc, notifications_enabled, adv, sched, running,
                  sht41_sensor_data, startSched, notifyLog, disconnectRequested,
                  fetched, retryInAck, ackInAck >>

\* disconnected_cb: the link went down (peer or local request).
disconnected_cb ==
  /\ link
  /\ default_conn' = NULL
  /\ link' = FALSE
  /\ k_event_set(MAIN_EVT_BLE_DISCONNECTED)
  /\ teardown' = IF pc = "AwaitingDisconnect" THEN "closed" ELSE teardown
  /\ act' = Step("disconnected_cb", 0)
  /\ UNCHANGED << pc, notifications_enabled, adv, sched, running,
                  sht41_sensor_data, startSched, notifyLog, disconnectRequested,
                  fetched, retryInAck, ackInAck >>

\* sensor_timer_expiry_handler: the timer expires; a periodic timer stays armed.
sensor_timer_expiry_handler ==
  /\ running
  /\ running' = (sched.period # K_NO_WAIT)
  /\ k_event_set(MAIN_EVT_TIMER_EXPIRY)
  /\ act' = Step("sensor_timer_expiry_handler", 0)
  /\ UNCHANGED << pc, default_conn, link, notifications_enabled, adv, sched,
                  sht41_sensor_data, hist >>


\* ------------------------------------------------------------------ worker
\* `continue`: back to the head of the loop, into the wait for the timer event.
Continue == EnterWait("WaitingForWake")

\* wait_for_notification_enable, second half: wait unless already armed.
CheckNotificationsEnabled ==
  IF ~notifications_enabled
  THEN EnterWait("AwaitingNotify")
  ELSE pc' = "Measuring" /\ woken' = FALSE /\ UNCHANGED evts

\* main: ble_init(); a failure ends main().
BleInit ==
  /\ pc = "Boot"
  /\ \E ret \in {0, 1} :
       /\ act' = Step("ble_init", ret)
       /\ IF ret # 0
          THEN pc' = "Halted" /\ UNCHANGED << evts, woken, adv >>
          ELSE adv' = TRUE /\ Continue
  /\ UNCHANGED << default_conn, link, notifications_enabled, sched, running,
                  sht41_sensor_data, hist >>

\* The wait for MAIN_EVT_TIMER_EXPIRY returns: an iteration begins.
Wake ==
  /\ pc = "WaitingForWake" /\ WaitReturns
  /\ pc' = "Advertising"
  /\ woken' = FALSE
  /\ startSched' = sched
  /\ notifyLog' = << >>
  /\ disconnectRequested' = FALSE
  /\ fetched' = FALSE
  /\ retryInAck' = FALSE
  /\ ackInAck' = FALSE
  /\ teardown' = "no"
  /\ act' = Step("Wake", 0)
  /\ UNCHANGED << evts, default_conn, link, notifications_enabled, adv, sched,
                  running, sht41_sensor_data >>

\* start_adv(), then the head of wait_for_notification_enable.
StartAdv ==
  /\ pc = "Advertising"
  /\ \E res \in {0, 1} :
       /\ act' = Step("start_adv", res)
       /\ IF res # 0
          THEN Continue /\ UNCHANGED adv
          ELSE /\ adv' = TRUE
               /\ IF default_conn = NULL
                  THEN EnterWait("AwaitingConn")
                  ELSE CheckNotificationsEnabled
  /\ UNCHANGED << default_conn, link, notifications_enabled, sched, running,
                  sht41_sensor_data, hist >>

\* The wait for MAIN_EVT_BLE_CONNECTED returns.
ConnWaitReturns ==
  /\ pc = "AwaitingConn" /\ WaitReturns
  /\ CheckNotificationsEnabled
  /\ act' = Step("Connected", 0)
  /\ UNCHANGED << default_conn, link, notifications_enabled, adv, sched, running,
                  sht41_sensor_data, hist >>

\* ... or times out: -ETIMEDOUT, stop_adv(), continue.
ConnWaitTimeout ==
  /\ pc = "AwaitingConn" /\ WaitTimesOut
  /\ \E err \in {0, 1} : stop_adv(err) /\ act' = Step("ConnectTimeout", err)
  /\ Continue
  /\ UNCHANGED << default_conn, link, notifications_enabled, sched, running,
                  sht41_sensor_data, hist >>

\* The wait for MAIN_EVT_BLE_NOTIFICATION_ENABLED returns.
NotifyWaitReturns ==
  /\ pc = "AwaitingNotify" /\ WaitReturns
  /\ pc' = "Measuring"
  /\ woken' = FALSE
  /\ act' = Step("Armed", 0)
  /\ UNCHANGED << evts, default_conn, link, notifications_enabled, adv, sched,
                  running, sht41_sensor_data, hist >>

\* ... or times out: -ETIMEDOUT, stop_adv(), continue.
NotifyWaitTimeout ==
  /\ pc = "AwaitingNotify" /\ WaitTimesOut
  /\ \E err \in {0, 1} : stop_adv(err) /\ act' = Step("NotifyEnableTimeout", err)
  /\ Continue
  /\ UNCHANGED << default_conn, link, notifications_enabled, sched, running,
                  sht41_sensor_data, hist >>

\* sht41_init(): device_is_ready(sht41).
SensorInit ==
  /\ pc = "Measuring"
  /\ \E ready \in BOOLEAN :
       /\ pc' = IF ready THEN "Fetching" ELSE "NotifyError"
       /\ act' = Step("sht41_init", IF ready THEN 0 ELSE 1)
  /\ UNCHANGED << evts, woken, default_conn, link, notifications_enabled, adv,
                  sched, running, sht41_sensor_data, hist >>

\* Sensor not available: notify_central(NOTIFY_STATUS_ERROR, 0, 0); continue.
SensorUnavailable ==
  /\ pc = "NotifyError"
  /\ \E err \in NotifyResults : act' = Step("SensorUnavailable", err)
  /\ notify_central(NOTIFY_STATUS_ERROR, 0, 0)
  /\ Continue
  /\ UNCHANGED << default_conn, link, notifications_enabled, adv, sched, running,
                  sht41_sensor_data, startSched, disconnectRequested, fetched,
                  retryInAck, ackInAck, teardown >>

\* Mutant: the result of the fetch is not checked.
FetchData_Unchecked ==
  /\ pc = "Fetching"
  /\ \/ \E s \in Samples :
          /\ sht41_sensor_data' = s
          /\ fetched' = TRUE
          /\ act' = Step("sht41_fetch_data", 0)
     \/ /\ act' = Step("sht41_fetch_data", 1)
        /\ UNCHANGED << sht41_sensor_data, fetched >>
  /\ pc' = "Delivering"
  /\ UNCHANGED << evts, woken, default_conn, link, notifications_enabled, adv,
                  sched, running, startSched, notifyLog, disconnectRequested,
                  retryInAck, ackInAck, teardown >>
\* sht41_fetch_data(): on success the sample is stored in sht41_sensor_data.
FetchData ==
  /\ pc = "Fetching"
  /\ \/ \E s \in Samples :
          /\ sht41_sensor_data' = s
          /\ fetched' = TRUE
          /\ pc' = "Delivering"
          /\ act' = Step("sht41_fetch_data", 0)
     \/ /\ pc' = "NotifyWait"
        /\ act' = Step("sht41_fetch_data", 1)
        /\ UNCHANGED << sht41_sensor_data, fetched >>
  /\ UNCHANGED << evts, woken, default_conn, link, notifications_enabled, adv,
                  sched, running, startSched, notifyLog, disconnectRequested,
                  retryInAck, ackInAck, teardown >>

\* Fetch failed: notify_central(NOTIFY_STATUS_WAIT, 0, 0), restart the timer
\* with the shorter duration, continue.
SensorReadError ==
  /\ pc = "NotifyWait"
  /\ \E err \in NotifyResults : act' = Step("SensorReadError", err)
  /\ notify_central(NOTIFY_STATUS_WAIT, 0, 0)
  /\ k_timer_start(FetchFailSchedule)
  /\ Continue
  /\ UNCHANGED << default_conn, link, notifications_enabled, adv,
                  sht41_sensor_data, startSched, disconnectRequested, fetched,
                  retryInAck, ackInAck, teardown >>

\* notify_central(NOTIFY_STATUS_OK, temp * 100, rh * 100): on failure restart
\* the timer and continue, else wait for the response.
Deliver ==
  /\ pc = "Delivering"
  /\ notify_central(NOTIFY_STATUS_OK, sht41_sensor_data.temp, sht41_sensor_data.rh)
  /\ \E err \in NotifyResults :
       IF err # 0
       THEN /\ k_timer_start(NotifyFailSchedule)
            /\ Continue
            /\ act' = Step("NotifyFailed", err)
       ELSE /\ EnterWait("AwaitingAck")
            /\ act' = Step("Notified", 0)
            /\ UNCHANGED << sched, running >>
  /\ UNCHANGED << default_conn, link, notifications_enabled, adv,
                  sht41_sensor_data, startSched, disconnectRequested, fetched,
                  retryInAck, ackInAck, teardown >>

\* The wait for MAIN_EVT_BLE_RESP_RECEIVED returns.
RespWaitReturns ==
  /\ pc = "AwaitingAck" /\ WaitReturns
  /\ pc' = "Disconnecting"
  /\ woken' = FALSE
  /\ act' = Step("RespReceived", 0)
  /\ UNCHANGED << evts, default_conn, link, notifications_enabled, adv, sched,
                  running, sht41_sensor_data, hist >>

\* ... or times out: restart the timer, continue.
RespWaitTimeout ==
  /\ pc = "AwaitingAck" /\ WaitTimesOut
  /\ k_timer_start(RespTimeoutSchedule)
  /\ Continue
  /\ act' = Step("RespTimeout", 0)
  /\ UNCHANGED << default_conn, link, notifications_enabled, adv,
                  sht41_sensor_data, hist >>

\* What bt_conn_disconnect(default_conn, ...) may do: 0 = accepted, 1 = error
\* returned, 2 = fault.  On a live connection it is accepted or refused; on a
\* connection object that is not connected it is refused; with
\* default_conn = NULL (cleared by disconnected_cb in the meantime) the stack
\* dereferences a null pointer, which is undefined: the call may return
\* either value or fault, which ends the worker.
DisconnectResults ==
  IF default_conn = NULL THEN {0, 1, 2}
  ELSE IF link THEN {0, 1} ELSE {1}

\* bt_conn_disconnect(default_conn, ...): on failure continue, else wait for
\* MAIN_EVT_BLE_DISCONNECTED.
Disconnect ==
  /\ pc = "Disconnecting"
  /\ disconnectRequested' = TRUE
  /\ \E res \in DisconnectResults :
       /\ act' = Step("bt_conn_disconnect", res)
       /\ IF res = 0 THEN EnterWait("AwaitingDisconnect")
          ELSE IF res = 1 THEN Continue
          ELSE pc' = "Halted" /\ UNCHANGED << evts, woken >>
  /\ UNCHANGED << default_conn, link, notifications_enabled, adv, sched, running,
                  sht41_sensor_data, startSched, notifyLog, fetched, retryInAck,
                  ackInAck, teardown >>

\* The wait for MAIN_EVT_BLE_DISCONNECTED returns: stop_adv(), reset the timer.
DisconnectWaitReturns ==
  /\ pc = "AwaitingDisconnect" /\ WaitReturns
  /\ \E err \in {0, 1} : stop_adv(err) /\ act' = Step("Delivered", err)
  /\ k_timer_start(DoneSchedule)
  /\ Continue
  /\ UNCHANGED << default_conn, link, notifications_enabled, sht41_sensor_data,
                  hist >>

\* Mutant: the timeout branch also resets the timer.
DisconnectWaitTimeout_Reschedule ==
  /\ pc = "AwaitingDisconnect" /\ WaitTimesOut
  /\ k_timer_start(DoneSchedule)
  /\ Continue
  /\ act' = Step("DisconnectTimeout", 0)
  /\ UNCHANGED << default_conn, link, notifications_enabled, adv,
                  sht41_sensor_data, hist >>
\* Mutant: the timeout branch lacks its `continue` and falls through.
DisconnectWaitTimeout_FallThrough ==
  /\ pc = "AwaitingDisconnect" /\ WaitTimesOut
  /\ \E err \in {0, 1} : stop_adv(err) /\ act' = Step("Delivered", err)
  /\ k_timer_start(DoneSchedule)
  /\ Continue
  /\ UNCHANGED << default_conn, link, notifications_enabled, sht41_sensor_data,
                  hist >>
\* ... or times out: continue.
DisconnectWaitTimeout ==
  /\ pc = "AwaitingDisconnect" /\ WaitTimesOut
  /\ Continue
  /\ act' = Step("DisconnectTimeout", 0)
  /\ UNCHANGED << default_conn, link, notifications_enabled, adv, sched, running,
                  sht41_sensor_data, hist >>

Worker ==
  \/ BleInit
  \/ Wake
  \/ StartAdv
  \/ ConnWaitReturns
  \/ ConnWaitTimeout
  \/ NotifyWaitReturns
  \/ NotifyWaitTimeout
  \/ SensorInit
  \/ SensorUnavailable
  \/ FetchData
  \/ SensorReadError
  \/ Deliver
  \/ RespWaitReturns
  \/ RespWaitTimeout
  \/ Disconnect
  \/ DisconnectWaitReturns
  \/ DisconnectWaitTimeout

Callbacks ==
  \/ \E b \in 0..MaxByte : rx_chr_written(b)
  \/ \E value \in {0, 1} : tx_chr_ccc_changed(value)
  \/ \E err \in 0..MaxErr : connected_cb(err)
  \/ disconnected_cb
  \/ sensor_timer_expiry_handler

Next == Worker \/ Callbacks

Spec == Init /\ [][Next]_vars

\* The worker thread is scheduled whenever it is runnable, and a finite
\* timeout elapses: a worker step that stays possible is eventually taken.
LiveSpec == Spec /\ WF_vars(Worker)

TypeOK ==
  /\ pc \in { "Boot", "Halted", "WaitingForWake", "Advertising", "AwaitingConn",
              "AwaitingNotify", "Measuring", "NotifyError", "Fetching",
              "NotifyWait", "Delivering", "AwaitingAck", "Disconnecting",
              "AwaitingDisconnect" }
  /\ evts \subseteq { MAIN_EVT_TIMER_EXPIRY, MAIN_EVT_BLE_RESP_RECEIVED,
                      MAIN_EVT_BLE_NOTIFICATION_ENABLED, MAIN_EVT_BLE_CONNECTED,
                      MAIN_EVT_BLE_DISCONNECTED }
  /\ woken \in BOOLEAN /\ link \in BOOLEAN /\ adv \in BOOLEAN
  /\ running \in BOOLEAN /\ notifications_enabled \in BOOLEAN
  /\ default_conn \in { NULL, CONN }
  /\ Len(notifyLog) <= 1


\* ================================================================== claims
\* The steps that end an iteration (the worker is back in the wake wait).
EndSteps == { "start_adv", "ConnectTimeout", "NotifyEnableTimeout",
              "SensorUnavailable", "SensorReadError", "NotifyFailed",
              "RespTimeout", "bt_conn_disconnect", "Delivered",
              "DisconnectTimeout" }
IterationEnded == pc = "WaitingForWake" /\ act.name \in EndSteps

\* The positions of the worker inside an iteration.
IterationPcs == { "Advertising", "AwaitingConn", "AwaitingNotify", "Measuring",
                  "NotifyError", "Fetching", "NotifyWait", "Delivering",
                  "AwaitingAck", "Disconnecting", "AwaitingDisconnect" }

\* C1: a peer write of 0x00 while the cycle is not awaiting the acknowledgment
\* has no effect: the timer's programming and arming are unchanged, no wait
\* is satisfied by it, and the worker's position is unchanged.
C1_AckOutsideWindowInert ==
  [][ (act'.name = "rx_chr_written" /\ act'.arg = 0 /\ pc # "AwaitingAck")
        => (sched' = sched /\ running' = running /\ woken' = woken /\ pc' = pc) ]_vars

\* C2: every notify call (a frame handed to send_notification) is made while
\* notifications_enabled is true.
C2_NotifyOnlyWhileArmed ==
  [][ Len(notifyLog') > Len(notifyLog) => notifications_enabled ]_vars

\* C3: a peer write of 0x01 during the wait for the acknowledgment signals the
\* response event, and the iteration then ends without a disconnect request
\* and with the timer programmed as a one-shot of 1 second.
C3_RetryRequestOneShot ==
  [][ /\ (act'.name = "rx_chr_written" /\ act'.arg = 1 /\ pc = "AwaitingAck")
           => (woken' /\ MAIN_EVT_BLE_RESP_RECEIVED \in evts')
      /\ (retryInAck /\ pc \in IterationPcs /\ pc' = "WaitingForWake")
           => (~disconnectRequested' /\ sched' = ScheduleRequest(1, 0)) ]_vars

\* C4: when the wait for the acknowledgment times out, the iteration ends in
\* the wake wait with the timer armed at delay 15 s, period 15 s, and no
\* disconnect was requested in the iteration.
C4_AckTimeoutRepeating15 ==
  act.name = "RespTimeout"
    => /\ pc = "WaitingForWake"
       /\ sched = ScheduleRequest(15, 15) /\ running
       /\ ~disconnectRequested
C4_Witness ==
  /\ act.name = "RespTimeout" /\ pc = "WaitingForWake"
  /\ Len(notifyLog) = 1 /\ fetched

\* C5: when a peer is connected and the wait for notifications to be armed
\* times out, no notify call was made in the iteration and the timer's
\* programming equals the one at the start of the iteration.
C5_ArmTimeoutLeavesSchedule ==
  (act.name = "NotifyEnableTimeout" /\ link)
    => (pc = "WaitingForWake" /\ notifyLog = << >> /\ sched = startSched)

\* C6: when the fetch fails, exactly one Wait frame [0x01] and no Ok frame is
\* handed to the transport, and the iteration ends in the wake wait with the
\* timer armed as a one-shot of 5 s.
C6_FetchFailWaitAndOneShot5 ==
  act.name = "SensorReadError"
    => /\ pc = "WaitingForWake"
       /\ notifyLog = << << 1 >> >>
       /\ ~fetched
       /\ sched = ScheduleRequest(5, 0) /\ running
C6_Witness ==
  /\ act.name = "SensorReadError" /\ pc = "WaitingForWake"
  /\ notifyLog = << << 1 >> >> /\ startSched # sched

\* C7: when the sensor device is not ready, exactly one Error frame [0xFF] is
\* handed to the transport, no fetch and no Ok frame happen, the timer's
\* programming equals the one at the start of the iteration, and the cycle is
\* back in the wake wait.
C7_NotReadyLeavesSchedule ==
  act.name = "SensorUnavailable"
    => /\ pc = "WaitingForWake"
       /\ notifyLog = << << 255 >> >>
       /\ ~fetched
       /\ sched = startSched

\* C8: an iteration that completes (response received, disconnect requested
\* and confirmed) handed exactly one frame, an Ok frame, to the transport,
\* called stop_adv (advertising is off when that call succeeded), and ends in
\* the wake wait with the timer armed as a one-shot of 15 s.
C8_HappyPathOneShot15 ==
  act.name = "Delivered"
    => /\ pc = "WaitingForWake"
       /\ Len(notifyLog) = 1 /\ Len(notifyLog[1]) = 5 /\ notifyLog[1][1] = 0
       /\ fetched /\ disconnectRequested
       /\ (act.arg = 0 => ~adv)
       /\ sched = ScheduleRequest(15, 0) /\ running
C8_Witness ==
  /\ act.name = "Delivered" /\ act.arg = 0 /\ pc = "WaitingForWake"
  /\ notifyLog = << << 0, 8, 89, 21, 126 >> >>
  /\ ~link /\ default_conn = NULL

\* C9: whenever an iteration has ended and the worker waits for the wake
\* event, the timer is armed or the wake event has already been signalled.
C9_WakeAlwaysArmed ==
  IterationEnded => (running \/ woken)

C10_Witness ==
  pc = "AwaitingDisconnect" /\ ~woken /\ link /\ disconnectRequested


\* ---------------------------------------------------------------- encoding
\* The int16_t values notify_central may be called with: the extremes, the
\* byte boundaries, the sign boundary and the values of the spec's scenario.
Int16Samples == { -32768, -1050, -257, -256, -1, 0, 1, 255, 256, 2137, 5502, 32767 }

\* The worker about to call notify_central(NOTIFY_STATUS_OK, temp, rh) with
\* any pair of int16_t values, a peer connected and armed.
EncInit ==
  /\ pc = "Delivering"
  /\ evts = {}
  /\ woken = FALSE
  /\ default_conn = CONN
  /\ link = TRUE
  /\ notifications_enabled = TRUE
  /\ adv = TRUE
  /\ sched = AckSchedule
  /\ running = TRUE
  /\ sht41_sensor_data \in [temp : Int16Samples, rh : Int16Samples]
  /\ startSched = AckSchedule
  /\ notifyLog = << >>
  /\ disconnectRequested = FALSE
  /\ fetched = TRUE
  /\ retryInAck = FALSE
  /\ ackInAck = FALSE
  /\ teardown = "no"
  /\ act = Step("sht41_fetch_data", 0)

EncSpec == EncInit /\ [][Deliver]_vars

\* A receiver's decoding of two bytes as a big-endian two's complement int16.
Decode16(hi, lo) ==
  LET u == 256 * hi + lo IN IF u >= 32768 THEN u - 65536 ELSE u
IsByte(x) == x \in 0..255

\* C11 (as stated): the Ok frame is [0x00, temp hi, temp lo, rh hi, rh lo],
\* decoding it gives back both values, and for (2137, 5502) the frame is
\* [0x00, 0x08, 0x51, 0x15, 0x7A].
C11_OkFrameAsStated ==
  notifyLog # << >>
    => LET f == notifyLog[1] IN
       /\ Len(f) = 5 /\ f[1] = 0 /\ \A i \in 2..5 : IsByte(f[i])
       /\ Decode16(f[2], f[3]) = sht41_sensor_data.temp
       /\ Decode16(f[4], f[5]) = sht41_sensor_data.rh
       /\ (sht41_sensor_data = [temp |-> 2137, rh |-> 5502]
             => f = << 0, 8, 81, 21, 122 >>)

\* C11 (amended): as above, but for (2137, 5502) the frame is
\* [0x00, 0x08, 0x59, 0x15, 0x7E] (2137 = 0x0859, 5502 = 0x157E).
C11_OkFrameRoundTrip ==
  notifyLog # << >>
    => LET f == notifyLog[1] IN
       /\ Len(f) = 5 /\ f[1] = 0 /\ \A i \in 2..5 : IsByte(f[i])
       /\ Decode16(f[2], f[3]) = sht41_sensor_data.temp
       /\ Decode16(f[4], f[5]) = sht41_sensor_data.rh
       /\ (sht41_sensor_data = [temp |-> 2137, rh |-> 5502]
             => f = << 0, 8, 89, 21, 126 >>)
C11_Witness ==
  /\ notifyLog # << >>
  /\ sht41_sensor_data = [temp |-> -1050, rh |-> -32768]
  /\ notifyLog[1] = << 0, 251, 230, 128, 0 >>


\* The steps taken by the callbacks.
CallbackSteps == { "rx_chr_written", "tx_chr_ccc_changed", "connected_cb",
                   "disconnected_cb", "sensor_timer_expiry_handler" }

\* C12: a disconnect is requested in an iteration only if the peer wrote 0x00
\* while that iteration was waiting for the acknowledgment, after its Ok frame
\* was pushed.
C12_TeardownOnlyAfterFreshAck ==
  disconnectRequested
    => (ackInAck /\ Len(notifyLog) = 1 /\ notifyLog[1][1] = 0)
C12_Witness ==
  /\ disconnectRequested /\ ackInAck /\ pc = "AwaitingDisconnect"
  /\ startSched # AckSchedule

\* C13: no callback step changes the timer's programmed delay / period.
C13_CallbacksLeaveSchedule ==
  [][ act'.name \in CallbackSteps => sched' = sched ]_vars

C15_PushFailRepeating15 ==
  [][ act'.name = "NotifyFailed"
        => /\ pc = "Delivering" /\ pc' = "WaitingForWake"
           /\ ~disconnectRequested'
           /\ sched' = ScheduleRequest(15, 15) /\ running' ]_vars
C15_Witness ==
  /\ act.name = "NotifyFailed" /\ pc = "WaitingForWake" /\ link
  /\ notifyLog = << << 0, 8, 89, 21, 126 >> >>

\* C16: a failed disconnect request and a timed-out disconnect wait return to
\* the wake wait leaving the timer and advertising as they are; the worker
\* programs the one-shot of 15 s only in the step that follows a received
\* disconnected event.
C16_DisconnectFailureLeavesSchedule ==
  [][ /\ ((act'.name = "bt_conn_disconnect" /\ act'.arg = 1)
           \/ act'.name = "DisconnectTimeout")
         => (pc' = "WaitingForWake" /\ sched' = sched /\ running' = running
             /\ adv' = adv)
      /\ (act'.name \notin CallbackSteps /\ sched' = ScheduleRequest(15, 0)
            /\ sched' # sched)
         => (act'.name = "Delivered" /\ pc = "AwaitingDisconnect" /\ woken) ]_vars
C16_Witness ==
  /\ act.name = "DisconnectTimeout" /\ pc = "WaitingForWake"
  /\ link /\ adv /\ sched = AckSchedule

\* C17: a peer write whose first byte is neither 0x00 nor 0x01 changes nothing:
\* no event, no wake-up of a pending wait, timer, armed flag, connection
\* handle and worker position unchanged.
C17_UnknownByteDropped ==
  [][ (act'.name = "rx_chr_written" /\ act'.arg \notin {0, 1})
        => UNCHANGED << evts, woken, sched, running, notifications_enabled,
                        default_conn, link, pc >> ]_vars
C17_Witness ==
  /\ act = Step("rx_chr_written", 2) /\ pc = "AwaitingAck" /\ ~woken
  /\ evts = {}

\* C18: an Ok frame is pushed only after a successful fetch in the same
\* iteration, and it carries the sample that fetch stored.
C18_OkFrameIsFresh ==
  (notifyLog # << >> /\ notifyLog[1][1] = 0)
    => /\ fetched
       /\ sht41_sensor_data \in Samples
       /\ Decode16(notifyLog[1][2], notifyLog[1][3]) = sht41_sensor_data.temp
       /\ Decode16(notifyLog[1][4], notifyLog[1][5]) = sht41_sensor_data.rh
C18_Witness ==
  /\ pc = "AwaitingAck" /\ fetched
  /\ notifyLog = << << 0, 251, 230, 39, 15 >> >>


\* C19 (as stated): when an iteration completes (stop_adv, one-shot of 15 s),
\* the connection handle is empty.
C19_HandleEmptyAtCompletion ==
  act.name = "Delivered" => default_conn = NULL

\* C19 (amended): when an iteration completes, a disconnected event arrived
\* during that iteration's disconnect wait (an event set before the wait
\* cannot satisfy it), and the connection handle is empty unless a new
\* connection was accepted after that event.
C19_TeardownHappenedInWait ==
  act.name = "Delivered"
    => /\ disconnectRequested
       /\ teardown \in { "closed", "reconnected" }
       /\ (teardown = "closed" => (default_conn = NULL /\ ~link))
C19_Witness ==
  /\ act.name = "Delivered" /\ teardown = "closed"
  /\ default_conn = NULL /\ ackInAck

\* C20: every notify call and every disconnect request is made with a
\* non-NULL connection handle.
C20_CallsOnLiveHandle ==
  [][ (Len(notifyLog') > Len(notifyLog)
        \/ (disconnectRequested' /\ ~disconnectRequested))
        => default_conn # NULL ]_vars

====
